---- MODULE Spec2Model ----
(***************************************************************************)
(* Model of src/app.py: the /upload handler of the fraud-ring detector.    *)
(* A ledger (CSV header + rows) is posted, saved, validated, turned into a *)
(* directed graph, searched for simple cycles of 3..5 accounts and for     *)
(* fan-in / fan-out hubs, scored, sorted and written to result.json.       *)
(*                                                                         *)
(* Accounts are opaque identifiers; they are modelled as naturals.  The    *)
(* accounts of Core exchange arbitrary single transactions; the accounts   *)
(* after them ("fillers") take part in bursts of transactions              *)
(* (a fan of senders, a fan of receivers, a relay ring), which is how the  *)
(* ledger reaches the degree threshold of 10 and cycles of 6 accounts.     *)
(*                                                                         *)
(* Python sets of strings iterate in an order fixed by the process's hash  *)
(* seed.  hashseed is that per-process value; IterOrder gives the order it *)
(* induces, and Restart gives the process another seed.                    *)
(***************************************************************************)
EXTENDS Integers, Sequences, FiniteSets, TLC

\* ---------------------------------------------------------------- bounds
MaxSteps == 2
MaxSeed == 1

\* ------------------------------------------------------ program constants
FanThreshold == 10
MinCycleLen == 3
MaxCycleLen == 5
RingRisk == 95

Required == {"transaction_id", "sender_id", "receiver_id", "amount", "timestamp"}

\* ------------------------------------------------------------ input sets
\* the accounts that exchange single transactions
Core == {1, 2}
\* a fan just below the threshold and one that reaches it
FanSizes == {FanThreshold - 1, FanThreshold}
\* a relay through k fillers closes a cycle of k + 1 accounts: the shortest
\* cycle that is reported and the shortest that is too long
RelaySizes == {MinCycleLen - 1, MaxCycleLen}
NumFillers == FanThreshold
Filler(i) == Cardinality(Core) + i
Seeds == 0..MaxSeed
\* the full header, and the headers that lack one required column
ColumnSets == {Required} \cup {Required \ {c} : c \in Required}

VARIABLES
    rows,        \* the ledger the client is composing: Seq of <<sender, receiver>>
    steps,       \* how many transactions / bursts the client has added
    hashseed,    \* hash seed of the running server process
    uploads,     \* UPLOAD_FOLDER: <<>> or <<[columns, rows]>>, the saved file
    result_json, \* OUTPUT_FOLDER/result.json: <<>> (absent) or <<report>>
    response     \* what the last request returned

vars == <<rows, steps, hashseed, uploads, result_json, response>>

\* --------------------------------------------------------------- helpers
Range(s) == {s[i] : i \in 1..Len(s)}

Contains(s, x) == \E i \in 1..Len(s) : s[i] = x

Min(a, b) == IF a <= b THEN a ELSE b

\* concatenation of the sequences ss[lo], ..., ss[hi]
RECURSIVE FlattenRange(_, _, _)
FlattenRange(ss, lo, hi) ==
    IF lo > hi THEN <<>>
    ELSE IF lo = hi THEN ss[lo]
    ELSE LET mid == (lo + hi) \div 2
         IN  FlattenRange(ss, lo, mid) \o FlattenRange(ss, mid + 1, hi)

Flatten(ss) == FlattenRange(ss, 1, Len(ss))

\* the elements of s at the positions I, in the order of s
At(s, I) == Flatten([i \in 1..Len(s) |-> IF i \in I THEN <<s[i]>> ELSE <<>>])

\* ascending sequence of a finite set of positive integers
Ascending(S) ==
    IF S = {} THEN <<>>
    ELSE LET hi == CHOOSE x \in S : \A y \in S : y <= x
         IN  Flatten([x \in 1..hi |-> IF x \in S THEN <<x>> ELSE <<>>])

\* the elements of s without repetitions, in order of first occurrence
Distinct(s) == At(s, {i \in 1..Len(s) : \A j \in 1..(i - 1) : s[j] # s[i]})

Reverse(s) == [i \in 1..Len(s) |-> s[Len(s) + 1 - i]]

Rotate(s, k) ==
    IF s = <<>> THEN s
    ELSE [i \in 1..Len(s) |-> s[((i - 1 + k) % Len(s)) + 1]]

\* Iteration order of a Python set of hashed keys under a hash seed.
IterOrder(S, seed) ==
    LET r == Rotate(Ascending(S), seed \div 2)
    IN  IF seed % 2 = 1 THEN Reverse(r) ELSE r

\* ---------------------------------------------------- string formatting
Digits == <<"0", "1", "2", "3", "4", "5", "6", "7", "8", "9">>

\* str(n) for a natural n, as the sequence of its decimal digits
RECURSIVE Decimal(_)
Decimal(n) ==
    IF n < 10 THEN <<Digits[n + 1]>>
    ELSE Append(Decimal(n \div 10), Digits[(n % 10) + 1])

\* f"{n:03d}": decimal digits, left-padded with zeros to at least 3
RECURSIVE PadZero(_, _)
PadZero(ds, width) == IF Len(ds) >= width THEN ds ELSE PadZero(<<"0">> \o ds, width)

RingIdNoIncrement(ring_counter) == <<"RING">> \o PadZero(Decimal(1), 3)

\* f"RING_{ring_counter:03d}"
RingId(ring_counter) == <<"RING">> \o PadZero(Decimal(ring_counter), 3)

NotApplicable == <<"N/A">>

CycleLabelOfMinimum(n) == <<"cycle", "length">> \o Decimal(MinCycleLen)

\* f"cycle_length_{len(cycle)}"
CycleLabel(n) == <<"cycle", "length">> \o Decimal(n)

FanInLabel == <<"fan", "in">>
FanOutLabel == <<"fan", "out">>

\* "cycle" in p  (substring test on a label)
HasCycleWord(p) == \E i \in 1..Len(p) : p[i] = "cycle"

\* ------------------------------------------------------------ the graph
\* G = nx.DiGraph(); for row in df: G.add_edge(sender_id, receiver_id)
\* A DiGraph keeps its nodes, and for each node its successors and its
\* predecessors, in insertion order.  add_edge makes both endpoints nodes
\* (the sender first) and leaves an edge that exists as it is, so the nodes
\* and the edges are the distinct ones of the input, in input order.
BuildGraph(df) ==
    LET ends == [i \in 1..(2 * Len(df)) |-> df[(i + 1) \div 2][2 - (i % 2)]]
        nodes == Distinct(ends)
        edges == Distinct(df)
    IN  [nodes |-> nodes,
         succ |-> [u \in Range(nodes) |->
                     LET es == At(edges, {i \in 1..Len(edges) : edges[i][1] = u})
                     IN  [i \in 1..Len(es) |-> es[i][2]]],
         pred |-> [v \in Range(nodes) |->
                     LET es == At(edges, {i \in 1..Len(edges) : edges[i][2] = v})
                     IN  [i \in 1..Len(es) |-> es[i][1]]]]

\* G.in_degree(n), G.out_degree(n)
InDegree(G, n) == Len(G.pred[n])

OutDegree(G, n) == Len(G.succ[n])

\* ------------------------------------------------------ cycle detection
\* Depth-first search for the simple cycles through root that stay inside
\* allowed: neighbours are tried in adjacency order, a neighbour equal to
\* root closes a cycle, an unvisited allowed neighbour extends the path.
RECURSIVE Search(_, _, _, _)
Search(G, root, allowed, path) ==
    LET nbrs == G.succ[path[Len(path)]]
    IN  Flatten([k \in 1..Len(nbrs) |->
            IF nbrs[k] = root
            THEN (IF Len(path) > 1 THEN <<path>> ELSE <<>>)
            ELSE IF nbrs[k] \in allowed /\ ~Contains(path, nbrs[k])
            THEN Search(G, root, allowed, Append(path, nbrs[k]))
            ELSE <<>>])

RootedCycles(G, order) ==
    Flatten([i \in 1..Len(order) |->
        Search(G, order[i], {order[j] : j \in (i + 1)..Len(order)}, <<order[i]>>)])

SelfLoops(G) ==
    LET ns == At(G.nodes, {i \in 1..Len(G.nodes) :
                              Contains(G.succ[G.nodes[i]], G.nodes[i])})
    IN  [i \in 1..Len(ns) |-> <<ns[i]>>]

\* nx.simple_cycles(G): the self-loops, then every simple cycle once, found
\* from a start node taken from a set of nodes (hash order) and removed
\* from the graph after its cycles are listed.
SimpleCycles(G, seed) ==
    SelfLoops(G) \o RootedCycles(G, IterOrder(Range(G.nodes), seed))

DetectCyclesNoUpperBound(G, seed) ==
    LET all_cycles == SimpleCycles(G, seed)
    IN  At(all_cycles, {i \in 1..Len(all_cycles) : MinCycleLen <= Len(all_cycles[i])})

\* [c for c in all_cycles if 3 <= len(c) <= 5]
detect_cycles(G, seed) ==
    LET all_cycles == SimpleCycles(G, seed)
    IN  At(all_cycles, {i \in 1..Len(all_cycles) :
                           /\ MinCycleLen <= Len(all_cycles[i])
                           /\ Len(all_cycles[i]) <= MaxCycleLen})

\* ------------------------------------------------------- fan patterns
FanLabelsStrict(G, node) ==
    (IF InDegree(G, node) > FanThreshold THEN <<FanInLabel>> ELSE <<>>)
    \o (IF OutDegree(G, node) > FanThreshold THEN <<FanOutLabel>> ELSE <<>>)

\* the labels detect_fan_patterns appends for one node
FanLabels(G, node) ==
    (IF InDegree(G, node) >= FanThreshold THEN <<FanInLabel>> ELSE <<>>)
    \o (IF OutDegree(G, node) >= FanThreshold THEN <<FanOutLabel>> ELSE <<>>)

\* A defaultdict(list) is the sequence of its items [key, val] in insertion
\* order.  fan_patterns gets a key for each node that gets a label, in the
\* order of G.nodes().
detect_fan_patterns(G) ==
    LET hubs == At(G.nodes, {i \in 1..Len(G.nodes) : FanLabels(G, G.nodes[i]) # <<>>})
    IN  [i \in 1..Len(hubs) |-> [key |-> hubs[i], val |-> FanLabels(G, hubs[i])]]

\* ------------------------------------------------------------- scoring
CalculateScorePerLabel(patterns) ==
    LET n == Cardinality({i \in 1..Len(patterns) : HasCycleWord(patterns[i])})
    IN  Min(50 * n
            + (IF Contains(patterns, FanInLabel) THEN 20 ELSE 0)
            + (IF Contains(patterns, FanOutLabel) THEN 20 ELSE 0), 100)

calculate_score(patterns) ==
    LET cycle_part == IF \E i \in 1..Len(patterns) : HasCycleWord(patterns[i])
                      THEN 50 ELSE 0
        in_part == IF Contains(patterns, FanInLabel) THEN 20 ELSE 0
        out_part == IF Contains(patterns, FanOutLabel) THEN 20 ELSE 0
    IN  Min(cycle_part + in_part + out_part, 100)

\* ------------------------------------------------------- ring aggregation
HasKey(d, k) == \E i \in 1..Len(d) : d[i].key = k

Lookup(d, k) == IF HasKey(d, k) THEN d[CHOOSE i \in 1..Len(d) : d[i].key = k].val ELSE <<>>

\* fraud_rings after the loop over cycles: ring_counter runs 1, 2, ...
FraudRings(cycles) ==
    [i \in 1..Len(cycles) |->
        [ring_id |-> RingId(i),
         member_accounts |-> cycles[i],
         pattern_type |-> "cycle",
         risk_score |-> RingRisk]]

\* suspicious_dict after the loop over cycles: an account gets its key when
\* the first cycle holding it is reached (in that cycle's member order), and
\* one label per cycle that holds it, in cycle order.
CycleEvidence(cycles) ==
    LET keys == Distinct(Flatten(cycles))
        labels(a) == LET cs == At(cycles, {i \in 1..Len(cycles) : Contains(cycles[i], a)})
                     IN  [i \in 1..Len(cs) |-> CycleLabel(Len(cs[i]))]
    IN  [n \in 1..Len(keys) |-> [key |-> keys[n], val |-> labels(keys[n])]]

\* for account, patterns in fan_patterns.items():
\*     suspicious_dict[account].extend(patterns)
MergeFans(suspicious_dict, fan_patterns) ==
    LET fresh == At(fan_patterns, {i \in 1..Len(fan_patterns) :
                                      ~HasKey(suspicious_dict, fan_patterns[i].key)})
    IN  [i \in 1..Len(suspicious_dict) |->
            [suspicious_dict[i] EXCEPT
                !.val = @ \o Lookup(fan_patterns, suspicious_dict[i].key)]]
        \o fresh

\* ------------------------------------------------------ report assembly
LabelKey(l) ==
    IF l = FanInLabel THEN 1
    ELSE IF l = FanOutLabel THEN 2
    ELSE 2 + (CHOOSE k \in 1..(Cardinality(Core) + NumFillers) : l = CycleLabel(k))

DetectedPatternsKeepAll(patterns, seed) == patterns

\* list(set(patterns)): the distinct labels, in the set's iteration order
DetectedPatterns(patterns, seed) ==
    LET S == Range(patterns)
        order == IterOrder({LabelKey(l) : l \in S}, seed)
    IN  [i \in 1..Len(order) |-> CHOOSE l \in S : LabelKey(l) = order[i]]

FindRingIdLastMatch(account, fraud_rings) ==
    LET hits == {i \in 1..Len(fraud_rings) :
                    Contains(fraud_rings[i].member_accounts, account)}
    IN  IF hits = {} THEN NotApplicable
        ELSE fraud_rings[CHOOSE i \in hits : \A j \in hits : j <= i].ring_id

\* ring_id = "N/A"; for ring in fraud_rings: if account in members: take it, break
FindRingId(account, fraud_rings) ==
    LET hits == {i \in 1..Len(fraud_rings) :
                    Contains(fraud_rings[i].member_accounts, account)}
    IN  IF hits = {} THEN NotApplicable
        ELSE fraud_rings[CHOOSE i \in hits : \A j \in hits : i <= j].ring_id

SortByScoreAscending(list) ==
    LET pos(i) == Cardinality({j \in 1..Len(list) :
                      \/ list[j].suspicion_score < list[i].suspicion_score
                      \/ /\ list[j].suspicion_score = list[i].suspicion_score
                         /\ j < i})
    IN  [k \in 1..Len(list) |-> list[CHOOSE i \in 1..Len(list) : pos(i) = k - 1]]

\* sorted(list, key=suspicion_score, reverse=True): stable, so an entry comes
\* after the higher scores and after the equal scores that precede it in list
SortByScore(list) ==
    LET pos(i) == Cardinality({j \in 1..Len(list) :
                      \/ list[j].suspicion_score > list[i].suspicion_score
                      \/ /\ list[j].suspicion_score = list[i].suspicion_score
                         /\ j < i})
    IN  [k \in 1..Len(list) |-> list[CHOOSE i \in 1..Len(list) : pos(i) = k - 1]]

\* the analysis of upload_file, from the data frame to result_json
Analyze(df, seed) ==
    LET G == BuildGraph(df)
        cycles == detect_cycles(G, seed)
        fraud_rings == FraudRings(cycles)
        suspicious_dict == MergeFans(CycleEvidence(cycles), detect_fan_patterns(G))
        entries == [i \in 1..Len(suspicious_dict) |->
                       [account_id |-> suspicious_dict[i].key,
                        suspicion_score |-> calculate_score(suspicious_dict[i].val),
                        detected_patterns |-> DetectedPatterns(suspicious_dict[i].val, seed),
                        ring_id |-> FindRingId(suspicious_dict[i].key, fraud_rings)]]
        suspicious_accounts == SortByScore(entries)
    IN  [suspicious_accounts |-> suspicious_accounts,
         fraud_rings |-> fraud_rings,
         summary |-> [total_accounts_analyzed |-> Len(G.nodes),
                      suspicious_accounts_flagged |-> Len(suspicious_accounts),
                      fraud_rings_detected |-> Len(fraud_rings)]]

ValidColumnsEndpointsOnly(columns) == {"sender_id", "receiver_id"} \subseteq columns

\* required_columns.issubset(df.columns)
ValidColumns(columns) == Required \subseteq columns

\* ------------------------------------------------------------ the client
\* n + 1 transactions to h from n distinct senders (the first sends twice)
FanInRows(h, n) == [i \in 1..(n + 1) |-> <<Filler(IF i > n THEN 1 ELSE i), h>>]

\* n + 1 transactions from h to n distinct receivers (the first receives twice)
FanOutRows(h, n) == [i \in 1..(n + 1) |-> <<h, Filler(IF i > n THEN 1 ELSE i)>>]

\* s -> filler 1 -> ... -> filler k -> s
RelayRows(s, k) ==
    [i \in 1..(k + 1) |-> <<IF i = 1 THEN s ELSE Filler(i - 1),
                           IF i = k + 1 THEN s ELSE Filler(i)>>]

\* the client adds transactions to the ledger it is going to upload
AddRows(new) ==
    /\ uploads = <<>>
    /\ steps < MaxSteps
    /\ rows' = rows \o new
    /\ steps' = steps + 1
    /\ UNCHANGED <<hashseed, uploads, result_json, response>>

AddRow(s, r) == AddRows(<<<<s, r>>>>)

AddFanIn(h, n) == AddRows(FanInRows(h, n))

AddFanOut(h, n) == AddRows(FanOutRows(h, n))

AddRelay(s, k) == AddRows(RelayRows(s, k))

\* ------------------------------------------------------------ the server
\* POST /upload with a file whose header is columns and whose body is rows
upload_file(columns) ==
    /\ uploads' = <<[columns |-> columns, rows |-> rows]>>
    /\ IF ~ValidColumns(columns)
       THEN /\ response' = "Invalid CSV format"
            /\ UNCHANGED result_json
       ELSE /\ result_json' = <<Analyze(rows, hashseed)>>
            /\ response' = "results.html"
    /\ UNCHANGED <<rows, steps, hashseed>>

\* the server process is started again: a new hash seed, the files stay
Restart ==
    /\ \E h \in Seeds \ {hashseed} : hashseed' = h
    /\ UNCHANGED <<rows, steps, uploads, result_json, response>>

Init ==
    /\ rows = <<>>
    /\ steps = 0
    /\ hashseed \in Seeds
    /\ uploads = <<>>
    /\ result_json = <<>>
    /\ response = "none"

\* ledgers with a well-formed header, served by a process that may restart
Next ==
    \/ \E s \in Core, r \in Core : AddRow(s, r)
    \/ \E h \in Core, n \in FanSizes : AddFanIn(h, n)
    \/ \E h \in Core, n \in FanSizes : AddFanOut(h, n)
    \/ \E s \in Core, k \in RelaySizes : AddRelay(s, k)
    \/ upload_file(Required)
    \/ Restart

Spec == Init /\ [][Next]_vars

\* ledgers of single transactions and relay rings, under any of the headers
NextSchema ==
    \/ \E s \in Core, r \in Core : AddRow(s, r)
    \/ \E s \in Core, k \in RelaySizes : AddRelay(s, k)
    \/ \E columns \in ColumnSets : upload_file(columns)

SpecSchema == Init /\ [][NextSchema]_vars

\* ================================================================ claims
HasReport == result_json # <<>>

Report == result_json[1]

Rings == Report.fraud_rings

Entries == Report.suspicious_accounts

NoRepeat(s) == Cardinality(Range(s)) = Len(s)

\* the rings, by position, that hold account a
RingsOf(a) == {i \in 1..Len(Rings) : a \in Range(Rings[i].member_accounts)}

IsCycleLabel(l) == Len(l) >= 3 /\ l[1] = "cycle" /\ l[2] = "length"

\* the distinct accounts that send to a, and that a sends to, in the ledger
SendersTo(a) == {rows[i][1] : i \in {j \in 1..Len(rows) : rows[j][2] = a}}

ReceiversFrom(a) == {rows[i][2] : i \in {j \in 1..Len(rows) : rows[j][1] = a}}

LedgerAccounts == UNION {{rows[i][1], rows[i][2]} : i \in 1..Len(rows)}

\* position of the first transaction field (sender, receiver, sender, ...) naming a
FirstAppearance(a) ==
    CHOOSE n \in 1..(2 * Len(rows)) :
        /\ rows[(n + 1) \div 2][2 - (n % 2)] = a
        /\ \A m \in 1..(n - 1) : rows[(m + 1) \div 2][2 - (m % 2)] # a

\* C1: every ring has between 3 and 5 member accounts and no account twice
\* (so a self-loop or a 2-cycle is never a ring).
C1_CycleWindow ==
    HasReport =>
        \A i \in 1..Len(Rings) :
            /\ Len(Rings[i].member_accounts) >= 3
            /\ Len(Rings[i].member_accounts) <= 5
            /\ NoRepeat(Rings[i].member_accounts)

\* a report with a ring, for a ledger that also holds a self-loop or a 2-cycle
C1_Witness ==
    /\ HasReport
    /\ Len(Rings) > 0
    /\ \E i, j \in 1..Len(rows) : rows[i][1] = rows[j][2] /\ rows[i][2] = rows[j][1]

\* C2: every suspicion_score is in 0..100 and is min(100, 50 if the account
\* has a cycle_length label + 20 if it has fan_in + 20 if it has fan_out),
\* whatever the number of cycles the account lies on.
C2_ScoreFormula ==
    HasReport =>
        \A i \in 1..Len(Entries) :
            LET e == Entries[i]
                labels == Range(e.detected_patterns)
                sum == (IF \E l \in labels : IsCycleLabel(l) THEN 50 ELSE 0)
                       + (IF <<"fan", "in">> \in labels THEN 20 ELSE 0)
                       + (IF <<"fan", "out">> \in labels THEN 20 ELSE 0)
            IN  /\ e.suspicion_score >= 0
                /\ e.suspicion_score <= 100
                /\ e.suspicion_score = (IF sum < 100 THEN sum ELSE 100)

\* an account that lies on several rings and scores 50
C2_Witness ==
    /\ HasReport
    /\ \E i \in 1..Len(Entries) :
          /\ Cardinality(RingsOf(Entries[i].account_id)) >= 2
          /\ Entries[i].suspicion_score = 50

SortedByScore ==
    \A i \in 1..Len(Entries), j \in 1..Len(Entries) :
        i < j => Entries[i].suspicion_score >= Entries[j].suspicion_score

\* C3 as stated: sorted by score, non-increasing, and entries with equal
\* scores in the order their accounts first appear in the ledger.
C3_TiesByFirstAppearance ==
    HasReport =>
        /\ SortedByScore
        /\ \A i \in 1..Len(Entries), j \in 1..Len(Entries) :
              (i < j /\ Entries[i].suspicion_score = Entries[j].suspicion_score)
                  => FirstAppearance(Entries[i].account_id)
                         < FirstAppearance(Entries[j].account_id)

FirstRing(a) == CHOOSE i \in RingsOf(a) : \A j \in RingsOf(a) : i <= j

PlaceIn(a, members) == CHOOSE k \in 1..Len(members) : members[k] = a

\* a got its evidence before b: ring members in the order of the rings and
\* of the members inside a ring, then the accounts on no ring in the order
\* of their first appearance in the ledger
EvidenceBefore(a, b) ==
    IF RingsOf(a) # {} /\ RingsOf(b) # {}
    THEN \/ FirstRing(a) < FirstRing(b)
         \/ /\ FirstRing(a) = FirstRing(b)
            /\ PlaceIn(a, Rings[FirstRing(a)].member_accounts)
                   < PlaceIn(b, Rings[FirstRing(b)].member_accounts)
    ELSE IF RingsOf(a) = {} /\ RingsOf(b) = {}
    THEN FirstAppearance(a) < FirstAppearance(b)
    ELSE RingsOf(a) # {}

\* C3 amended: sorted by score, non-increasing, and entries with equal scores
\* in the order their accounts got their first evidence.
C3_TiesByEvidenceOrder ==
    HasReport =>
        /\ SortedByScore
        /\ \A i \in 1..Len(Entries), j \in 1..Len(Entries) :
              (i < j /\ Entries[i].suspicion_score = Entries[j].suspicion_score)
                  => EvidenceBefore(Entries[i].account_id, Entries[j].account_id)

\* a report with two different scores and two entries of equal score
C3_Witness ==
    /\ HasReport
    /\ \E i, j \in 1..Len(Entries) :
          i < j /\ Entries[i].suspicion_score = Entries[j].suspicion_score
    /\ \E i, j \in 1..Len(Entries) :
          Entries[i].suspicion_score > Entries[j].suspicion_score

\* C4: every member of a ring of k accounts has an entry whose
\* detected_patterns holds cycle_length_k.
C4_MembersLabelled ==
    HasReport =>
        \A i \in 1..Len(Rings) :
            \A a \in Range(Rings[i].member_accounts) :
                \E n \in 1..Len(Entries) :
                    /\ Entries[n].account_id = a
                    /\ Contains(Entries[n].detected_patterns,
                                <<"cycle", "length">>
                                    \o Decimal(Len(Rings[i].member_accounts)))

\* rings of two different sizes
C4_Witness ==
    /\ HasReport
    /\ \E i, j \in 1..Len(Rings) :
          Len(Rings[i].member_accounts) < Len(Rings[j].member_accounts)

\* C5: an entry's ring_id is that of the first ring holding its account, and
\* is "N/A" exactly when no ring holds it.
C5_FirstRingId ==
    HasReport =>
        \A n \in 1..Len(Entries) :
            LET a == Entries[n].account_id
            IN  /\ RingsOf(a) # {} => Entries[n].ring_id = Rings[FirstRing(a)].ring_id
                /\ RingsOf(a) = {} <=> Entries[n].ring_id = <<"N/A">>

\* an account that lies on several rings
C5_Witness ==
    /\ HasReport
    /\ \E n \in 1..Len(Entries) : Cardinality(RingsOf(Entries[n].account_id)) >= 2

ThreeDigits(i) ==
    <<Digits[((i \div 100) % 10) + 1], Digits[((i \div 10) % 10) + 1], Digits[(i % 10) + 1]>>

\* C6: the rings are the detected cycles, one ring per cycle in emission
\* order; ring i is RING_ and i in three digits, with the cycle as members,
\* type "cycle" and risk 95; fraud_rings_detected counts them.
C6_RingPerCycle ==
    HasReport =>
        /\ \E h \in Seeds :
              LET cycles == detect_cycles(BuildGraph(rows), h)
              IN  /\ Len(Rings) = Len(cycles)
                  /\ \A i \in 1..Len(Rings) : Rings[i].member_accounts = cycles[i]
        /\ \A i \in 1..Len(Rings) :
              /\ i < 1000 => Rings[i].ring_id = <<"RING">> \o ThreeDigits(i)
              /\ Rings[i].pattern_type = "cycle"
              /\ Rings[i].risk_score = 95
        /\ \A i, j \in 1..Len(Rings) : i # j => Rings[i].ring_id # Rings[j].ring_id
        /\ Report.summary.fraud_rings_detected = Len(Rings)

\* a report with several rings
C6_Witness == HasReport /\ Len(Rings) >= 2

\* C7: an upload whose header lacks a required column answers with the
\* format error and leaves result.json as it was.
C7_SchemaFailure ==
    [][(uploads' # <<>> /\ ~(Required \subseteq uploads'[1].columns))
           => (response' = "Invalid CSV format" /\ result_json' = result_json)]_vars

\* a rejected upload after an accepted one: the earlier report is still there
C7_Witness ==
    /\ uploads # <<>>
    /\ ~(Required \subseteq uploads[1].columns)
    /\ response = "Invalid CSV format"
    /\ HasReport
    /\ Len(Rings) > 0

HasLabel(a, label) ==
    \E n \in 1..Len(Entries) :
        Entries[n].account_id = a /\ Contains(Entries[n].detected_patterns, label)

\* C8: an account is labelled fan_in iff at least 10 distinct accounts send
\* to it, and fan_out iff it sends to at least 10 distinct accounts.
C8_FanByDistinctDegree ==
    HasReport =>
        \A a \in LedgerAccounts :
            /\ HasLabel(a, <<"fan", "in">>) <=> Cardinality(SendersTo(a)) >= 10
            /\ HasLabel(a, <<"fan", "out">>) <=> Cardinality(ReceiversFrom(a)) >= 10

\* an account that receives 10 transactions from 9 senders and is not
\* labelled, beside an account that is
C8_Witness ==
    /\ HasReport
    /\ \E a \in LedgerAccounts :
          /\ Cardinality({i \in 1..Len(rows) : rows[i][2] = a}) >= 10
          /\ Cardinality(SendersTo(a)) < 10
          /\ ~HasLabel(a, <<"fan", "in">>)
    /\ \E a \in LedgerAccounts : HasLabel(a, <<"fan", "in">>)

\* C9: a run on a ledger that already has a report gives the same rings and
\* the same suspicious accounts again.
C9_SameReportAgain ==
    [][(HasReport /\ rows' = rows)
           => /\ result_json'[1].fraud_rings = Rings
              /\ result_json'[1].suspicious_accounts = Entries]_vars

\* the accounts that are sender to, or receiver from, at least 10 accounts
Hubs ==
    {a \in LedgerAccounts :
        Cardinality(SendersTo(a)) >= 10 \/ Cardinality(ReceiversFrom(a)) >= 10}

RingMembers == UNION {Range(Rings[i].member_accounts) : i \in 1..Len(Rings)}

\* C10: one entry for each ring member and each hub and for no other
\* account; every detected_patterns is non-empty and repeats no label; the
\* summary counts the entries, and they are no more than the accounts.
C10_OneEntryPerFlagged ==
    HasReport =>
        /\ {Entries[n].account_id : n \in 1..Len(Entries)} = RingMembers \cup Hubs
        /\ \A n, m \in 1..Len(Entries) :
              n # m => Entries[n].account_id # Entries[m].account_id
        /\ \A n \in 1..Len(Entries) :
              /\ Entries[n].detected_patterns # <<>>
              /\ NoRepeat(Entries[n].detected_patterns)
        /\ Report.summary.suspicious_accounts_flagged = Cardinality(RingMembers \cup Hubs)
        /\ Report.summary.suspicious_accounts_flagged
               <= Report.summary.total_accounts_analyzed

\* an account on two rings of the same size
C10_Witness ==
    /\ HasReport
    /\ \E i, j \in 1..Len(Rings) :
          /\ i # j
          /\ Len(Rings[i].member_accounts) = Len(Rings[j].member_accounts)
          /\ Range(Rings[i].member_accounts) \cap Range(Rings[j].member_accounts) # {}

====
